---- MODULE Spec2Model ----
(***************************************************************************)
(* The MPI coordination protocol of autodock-src/my_autodock.py:           *)
(* rank 0 (controller) owns the work queue and the shutdown sequence,      *)
(* rank 1 (aggregator, clean_as_we_go) keeps the list of retained score    *)
(* lines and derives the minimum viable score (MVS), ranks 2..SIZE-1       *)
(* (workers, processing/run_docking) dock the ligands of the units they    *)
(* are sent.                                                               *)
(*                                                                         *)
(* Messaging: COMM.send is MPI's standard-mode send of a small pickled     *)
(* object, modelled as an append to the FIFO channel of its (source,       *)
(* destination) pair; MPI orders messages only within such a pair.         *)
(* COMM.recv(source=ANY_SOURCE) takes the head of any non-empty channel    *)
(* to the receiver, COMM.recv(source=s, tag=t) the first message with tag  *)
(* t of the channel from s.  Every action is one blocking receive with     *)
(* all the code that runs up to the next blocking receive.                 *)
(*                                                                         *)
(* Scores are integers (only their order matters); a score line            *)
(* f'{filename} {score}\n' is the record [name, score], a ligand filename  *)
(* holding no blank.  An uncaught Python exception ends the rank           *)
(* (pc "crashed"): it sends and receives nothing more.                     *)
(*                                                                         *)
(* Five specifications share the next-state relation.  ShippedSpec starts  *)
(* from the queue prep_ligands returns as written: its debugging slice     *)
(* ligand_paths[0:1] (marked FIXME, lines 280-284) keeps one batch file.   *)
(* Spec starts from the queue of every batch file found (lines 275-279,    *)
(* the list autodock.py's prep_ligands returns), so that the dispatch loop *)
(* of main is exercised on more than one unit.  FaultSpec adds batch files *)
(* that fail to decode and ligands whose docking raises; BulkSpec uses     *)
(* batch files large enough to reach the aggregator's compaction trigger;  *)
(* ItemFaultSpec uses ligands on which each docking call in turn fails.    *)
(* HarnessSpec is the remember_MVS run of examples/sortTest.py, and        *)
(* HarnessFairSpec the same run with every rank scheduled fairly.          *)
(* FinalizeSpec applies the final sorts of my_autodock.py and autodock.py  *)
(* to lists of score lines.                                                *)
(***************************************************************************)
EXTENDS Integers, Sequences, FiniteSets, TLC

\* ------------------------------------------------------------- bounds
NumWorkers == 2
MaxUnits == 2
MaxItems == 2
MaxLines == 3

\* ------------------------------------------------- program constants
SLACK == 50
MAX_OUTPUTS == 1000
INITIAL_MVS == 1

SIZE == NumWorkers + 2
Workers == 2..(SIZE - 1)
Ranks == 0..(SIZE - 1)

\* args.number values tried, and the scores a docking can return
Numbers == {1, 2}
Scores == {0, 1, 2}

NUMBER_OF_OUTPUTS(number) == IF number <= MAX_OUTPUTS THEN number ELSE MAX_OUTPUTS

\* ------------------------------------------------------------ helpers
Last(s) == s[Len(s)]
Front(s) == SubSeq(s, 1, Len(s) - 1)
Min(a, b) == IF a <= b THEN a ELSE b
RemoveAt(s, i) == SubSeq(s, 1, i - 1) \o SubSeq(s, i + 1, Len(s))

Msg(kind, val, tag) == [kind |-> kind, val |-> val, tag |-> tag]
Text(s) == Msg("text", s, 0)
IsText(m, s) == m.kind = "text" /\ m.val = s

Send(ch, src, dst, m) == [ch EXCEPT ![src][dst] = Append(@, m)]
SendAll(ch, src, dsts, m) ==
    [ch EXCEPT ![src] = [d \in Ranks |-> IF d \in dsts THEN Append(ch[src][d], m)
                                                       ELSE ch[src][d]]]
Recv(ch, src, dst) == [ch EXCEPT ![src][dst] = Tail(@)]

\* ------------------------------------------------------- input domain
\* One ligand of a batch file: the score the docking returns for it and how
\* the docking calls of run_docking behave on it ("dock": set_ligand_from_string
\* or dock raises, "energies": the read of v.energies(...)[0][0] raises, "write":
\* write_poses raises).
OkItems == {[score |-> s, fault |-> "ok"] : s \in Scores}
\* A batch file: what unpickle_and_decompress does on it ("ok": the dictionary
\* of its ligands, "empty": {} after a decompress/unpickle error, "raise": open()
\* fails) and its ligands in dictionary order.
UnitsOf(itemSet, maxLen) ==
    {[decode |-> "ok", items |-> q] : q \in UNION {[1..n -> itemSet] : n \in 0..maxLen}}
OkUnits == UnitsOf(OkItems, MaxItems)

\* Inputs with failures: a ligand whose docking raises, a batch file that open()
\* cannot read, a batch file whose decompress/unpickle fails.
FaultItems == {[score |-> 0, fault |-> "ok"], [score |-> 2, fault |-> "ok"],
               [score |-> 0, fault |-> "dock"]}
FaultUnits ==
    UnitsOf(FaultItems, 1) \cup
    {[decode |-> "raise", items |-> <<>>], [decode |-> "empty", items |-> <<>>]}

\* Inputs whose ligands fail one by one inside run_docking: every kind of
\* failure of a docking call, in batch files of up to MaxItems ligands.
ItemFaultItems == {[score |-> 0, fault |-> f] : f \in {"ok", "dock", "energies", "write"}}
ItemFaultUnits == UnitsOf(ItemFaultItems, MaxItems)

\* Inputs that fill the aggregator's list up to its compaction trigger: a batch
\* file of n ligands that all dock with score 0, for n = 1 and n from
\* NUMBER_OF_OUTPUTS + 50 on, with args.number below and above the cap of line 72.
BulkNumbers == {1, 5000}
BulkUnit(n) == [decode |-> "ok", items |-> [i \in 1..n |-> [score |-> 0, fault |-> "ok"]]]
BulkUnits(k) == {BulkUnit(1), BulkUnit(k + SLACK), BulkUnit(k + SLACK + 1)}

VARIABLES
    number,                 \* args.number
    library,                \* batch file (unit id) -> its content
    chan,                   \* chan[src][dst]: messages in flight
    cpc,                    \* rank 0: position in main
    ligands,                \* rank 0: the work queue
    pre_responses,          \* rank 0
    minimum_viable_score,   \* rank 0: main's minimum_viable_score
    current_responses,      \* rank 0
    sorted_scores,          \* rank 0: lines written to sorted_scores.txt
    apc,                    \* rank 1: position in main/clean_as_we_go
    lines_to_keep,          \* rank 1
    agg_mvs,                \* rank 1: clean_as_we_go's minimum_viable_score
    wpc,                    \* workers: position in main/processing
    wligands,               \* workers: unit whose dictionary `ligands` holds, 0 = unbound
    work_units              \* the units prep_ligands put in the queue (never changes)

vars == <<number, library, chan, cpc, ligands, pre_responses, minimum_viable_score,
          current_responses, sorted_scores, apc, lines_to_keep, agg_mvs, wpc, wligands,
          work_units>>

ctrlVars == <<cpc, ligands, pre_responses, minimum_viable_score, current_responses,
              sorted_scores>>
aggVars == <<apc, lines_to_keep, agg_mvs>>
workVars == <<wpc, wligands>>
inputVars == <<number, library, work_units>>

EmptyChan == [s \in Ranks |-> [d \in Ranks |-> <<>>]]

\* prep_ligands as written (lines 275-284): of the batch files os.walk finds,
\* only the first is returned.
prep_ligands(ligand_paths) == SubSeq(ligand_paths, 1, Min(1, Len(ligand_paths)))

\* The batch files os.walk finds (lines 275-279), in the order found.
walk_paths(n) == [i \in 1..n |-> i]

SeqRange(q) == {q[i] : i \in 1..Len(q)}

\* The state of every rank when main starts, rank 0 past prep_ligands (line 715).
StartStateFor(numbers, queue) ==
    /\ number \in numbers
    /\ ligands = queue
    /\ work_units = SeqRange(queue)
    /\ chan = EmptyChan
    /\ cpc = "start"
    /\ pre_responses = 0
    /\ minimum_viable_score = INITIAL_MVS
    /\ current_responses = 0
    /\ sorted_scores = <<>>
    /\ apc = "await_preprocess"
    /\ lines_to_keep = <<>>
    /\ agg_mvs = INITIAL_MVS
    /\ wpc = [w \in Workers |-> "await_preprocess"]
    /\ wligands = [w \in Workers |-> 0]

StartState(queue) == StartStateFor(Numbers, queue)

Init ==
    \E n \in 0..MaxUnits :
        /\ library \in [1..n -> OkUnits]
        /\ StartState(walk_paths(n))

ShippedInit ==
    \E n \in 0..MaxUnits :
        /\ library \in [1..n -> OkUnits]
        /\ StartState(prep_ligands(walk_paths(n)))

ItemFaultInit ==
    \E n \in 0..MaxUnits :
        /\ library \in [1..n -> ItemFaultUnits]
        /\ StartState(prep_ligands(walk_paths(n)))

FaultInit ==
    \E n \in 0..MaxUnits :
        /\ library \in [1..n -> FaultUnits]
        /\ StartState(walk_paths(n))

BulkInit ==
    \E n \in 1..2 :
        /\ StartStateFor(BulkNumbers, walk_paths(n))
        /\ library \in [1..n -> BulkUnits(NUMBER_OF_OUTPUTS(number))]

\* ------------------------------------------------------- rank 0: main
\* The handshake loop ends when pre_responses reaches this count (line 724).
pre_responses_short == SIZE - 2
pre_responses_target == SIZE - 1
\* The drain loop ends when current_responses reaches this count (line 754).
current_responses_short == SIZE - 3
current_responses_target == SIZE - 2

\* final_sort: sorted() is stable, so lines of equal score keep their order.
RECURSIVE InsertByScore(_, _)
InsertByScore(sortedLines, line) ==
    IF sortedLines = <<>> THEN <<line>>
    ELSE IF Last(sortedLines).score <= line.score THEN Append(sortedLines, line)
    ELSE Append(InsertByScore(Front(sortedLines), line), Last(sortedLines))

RECURSIVE SortedByScore(_)
SortedByScore(lines) ==
    IF lines = <<>> THEN <<>>
    ELSE InsertByScore(SortedByScore(Front(lines)), Last(lines))

\* final_sort's other output, sorted_scores_all.txt (line 637): not truncated.
final_sort_all(top_ligands, k) == SortedByScore(top_ligands)

\* Lines 630-634: the lines written to sorted_scores.txt.
final_sort(top_ligands, k) ==
    SubSeq(SortedByScore(top_ligands), 1, Min(k, Len(top_ligands)))

\* Lines 746-751: the dispatch loop is over, every worker is told to stop.
AfterDispatch_skipped(ch) == ch
AfterDispatch_twice(ch) ==
    SendAll(SendAll(ch, 0, Workers, Text("no more ligands")), 0, Workers, Text("no more ligands"))
AfterDispatch(ch) == SendAll(ch, 0, Workers, Text("no more ligands"))

\* Lines 758-760: the drain loop is over, rank 1 is told to stop.
AfterDrain(ch) == Send(ch, 0, 1, Text("stop working"))

\* Lines 719-721.
ControllerStart ==
    /\ cpc = "start"
    /\ chan' = SendAll(chan, 0, Ranks \ {0}, Text("pre-processing finished; ask for work"))
    /\ cpc' = "handshake"
    /\ UNCHANGED <<ligands, pre_responses, minimum_viable_score, current_responses,
                   sorted_scores, aggVars, workVars, inputVars>>

\* Lines 723-735: one receive of the handshake loop; on the last 'ready to go'
\* rank 1 is started and the dispatch loop is entered (or skipped on an empty queue).
ControllerHandshake ==
    /\ cpc = "handshake"
    /\ \E r \in Ranks \ {0} :
        /\ chan[r][0] # <<>>
        /\ LET response == Head(chan[r][0])
               ch1 == Recv(chan, r, 0)
               count == IF IsText(response, "ready to go") THEN pre_responses + 1
                        ELSE pre_responses
               ch2 == Send(ch1, 0, 1, Msg("text", "Rank 1 will be ready to clean as we go", 1))
           IN /\ pre_responses' = count
              /\ IF count # pre_responses_target
                 THEN /\ chan' = ch1
                      /\ cpc' = "handshake"
                 ELSE IF ligands # <<>>
                 THEN /\ chan' = ch2
                      /\ cpc' = "dispatch"
                 ELSE /\ chan' = AfterDispatch(ch2)
                      /\ cpc' = "drain"
    /\ UNCHANGED <<ligands, minimum_viable_score, current_responses, sorted_scores,
                   aggVars, workVars, inputVars>>

\* Line 741: the payload of a dispatch is the controller's current MVS and the
\* path popped off the end of the queue.
dispatch_payload_initial(mvs, queue) == Msg("payload", <<INITIAL_MVS, Last(queue)>>, 0)
dispatch_payload_first(mvs, queue) == Msg("payload", <<mvs, Head(queue)>>, 0)
dispatch_payload(mvs, queue) == Msg("payload", <<mvs, Last(queue)>>, 0)

\* Lines 735-751: one receive of the dispatch loop.  A message with tag 3 is a
\* new MVS; anything else is taken to be the rank of a worker asking for work.
ControllerDispatch ==
    /\ cpc = "dispatch"
    /\ \E r \in Ranks \ {0} :
        /\ chan[r][0] # <<>>
        /\ LET source == Head(chan[r][0])
               ch1 == Recv(chan, r, 0)
           IN IF source.tag = 3
              THEN /\ minimum_viable_score' = source.val
                   /\ chan' = ch1
                   /\ cpc' = "dispatch"
                   /\ UNCHANGED ligands
              ELSE /\ ligands' = Front(ligands)
                   /\ UNCHANGED minimum_viable_score
                   /\ IF source.kind # "rank"
                      THEN \* COMM.send(payload, dest=<not a rank>) raises
                           /\ chan' = ch1
                           /\ cpc' = "crashed"
                      ELSE LET payload == dispatch_payload(minimum_viable_score, ligands)
                               ch2 == Send(ch1, 0, source.val, payload)
                           IN IF Front(ligands) # <<>>
                              THEN /\ chan' = ch2
                                   /\ cpc' = "dispatch"
                              ELSE /\ chan' = AfterDispatch(ch2)
                                   /\ cpc' = "drain"
    /\ UNCHANGED <<pre_responses, current_responses, sorted_scores,
                   aggVars, workVars, inputVars>>

\* Lines 753-760: one receive of the drain loop.
ControllerDrain ==
    /\ cpc = "drain"
    /\ \E r \in Ranks \ {0} :
        /\ chan[r][0] # <<>>
        /\ LET response == Head(chan[r][0])
               ch1 == Recv(chan, r, 0)
               count == IF IsText(response, "message received--proceed to post-processing")
                        THEN current_responses + 1 ELSE current_responses
           IN /\ current_responses' = count
              /\ IF count # current_responses_target
                 THEN /\ chan' = ch1
                      /\ cpc' = "drain"
                 ELSE /\ chan' = AfterDrain(ch1)
                      /\ cpc' = "await_stopped"
    /\ UNCHANGED <<ligands, pre_responses, minimum_viable_score, sorted_scores,
                   aggVars, workVars, inputVars>>

\* Index of the first message with tag t in channel q, 0 if none.
FirstTagged(q, t) ==
    IF \E i \in 1..Len(q) : q[i].tag = t
    THEN CHOOSE i \in 1..Len(q) : q[i].tag = t /\ \A j \in 1..(i - 1) : q[j].tag # t
    ELSE 0

\* Line 761: COMM.recv(source=1, tag=1).
ControllerRecvStopped ==
    /\ cpc = "await_stopped"
    /\ FirstTagged(chan[1][0], 1) # 0
    /\ chan' = [chan EXCEPT ![1][0] = RemoveAt(@, FirstTagged(chan[1][0], 1))]
    /\ cpc' = "await_final"
    /\ UNCHANGED <<ligands, pre_responses, minimum_viable_score, current_responses,
                   sorted_scores, aggVars, workVars, inputVars>>

\* Lines 763-768: COMM.recv(source=1, tag=2), then final_sort.
ControllerRecvFinal ==
    /\ cpc = "await_final"
    /\ FirstTagged(chan[1][0], 2) # 0
    /\ LET i == FirstTagged(chan[1][0], 2)
           top_ligands_message == chan[1][0][i].val
       IN /\ chan' = [chan EXCEPT ![1][0] = RemoveAt(@, i)]
          /\ sorted_scores' = final_sort(top_ligands_message, NUMBER_OF_OUTPUTS(number))
    /\ cpc' = "done"
    /\ UNCHANGED <<ligands, pre_responses, minimum_viable_score, current_responses,
                   aggVars, workVars, inputVars>>

\* --------------------------------------------- rank 1: clean_as_we_go
\* split(' ')[1] of a score line, read as a number.
line_score(line) == line.score

\* sort_for_rank1 raises NameError at line 350 (`scores` is a local of
\* clean_as_we_go, not a global) before it sorts anything.
sort_for_rank1(top_scores, k) == [raised |-> TRUE, lines |-> top_scores]

\* Lines 789-791 / 781-782: wait for rank 0, answer 'ready to go'.
AggregatorReady ==
    /\ apc = "await_preprocess"
    /\ chan[0][1] # <<>>
    /\ chan' = Send(Recv(chan, 0, 1), 1, 0, Text("ready to go"))
    /\ apc' = "await_start"
    /\ UNCHANGED <<lines_to_keep, agg_mvs, ctrlVars, workVars, inputVars>>

\* Lines 783-787.
AggregatorStart ==
    /\ apc = "await_start"
    /\ chan[0][1] # <<>>
    /\ chan' = Recv(chan, 0, 1)
    /\ apc' = IF IsText(Head(chan[0][1]), "Rank 1 will be ready to clean as we go")
              THEN "loop" ELSE "done"
    /\ UNCHANGED <<lines_to_keep, agg_mvs, ctrlVars, workVars, inputVars>>

stop_reply_sorted(ch, lines) ==
    Send(Send(ch, 1, 0, Msg("text", "Stopping clean_as_we_go", 1)),
         1, 0, Msg("lines", SortedByScore(lines), 2))

\* Lines 334-336: after the loop, rank 0 is told that rank 1 stops and is sent
\* the list as it is.
stop_reply(ch, lines) ==
    Send(Send(ch, 1, 0, Msg("text", "Stopping clean_as_we_go", 1)),
         1, 0, Msg("lines", lines, 2))

\* Lines 299-336: one receive of the loop of clean_as_we_go.
AggregatorLoop ==
    /\ apc = "loop"
    /\ \E r \in Ranks \ {1} :
        /\ chan[r][1] # <<>>
        /\ LET message == Head(chan[r][1])
               ch1 == Recv(chan, r, 1)
           IN IF IsText(message, "stop working")
              THEN /\ chan' = stop_reply(ch1, lines_to_keep)
                   /\ apc' = "done"
                   /\ UNCHANGED <<lines_to_keep, agg_mvs>>
              ELSE IF message.kind # "batch"
              THEN /\ chan' = ch1
                   /\ UNCHANGED <<apc, lines_to_keep, agg_mvs>>
              ELSE LET scores == message.val
                       appended == IF Len(scores) > 0 THEN lines_to_keep \o scores
                                   ELSE lines_to_keep
                       compact == Len(appended) >= NUMBER_OF_OUTPUTS(number) + SLACK
                       sorted == sort_for_rank1(appended, NUMBER_OF_OUTPUTS(number))
                       kept == IF compact THEN sorted.lines ELSE appended
                   IN IF (compact /\ sorted.raised) \/ kept = <<>>
                      THEN \* NameError in sort_for_rank1, or IndexError at line 322
                           /\ chan' = ch1
                           /\ apc' = "crashed"
                           /\ lines_to_keep' = appended
                           /\ UNCHANGED agg_mvs
                      ELSE /\ lines_to_keep' = kept
                           /\ agg_mvs' = line_score(Last(kept))
                           /\ chan' = Send(ch1, 1, 0, Msg("mvs", line_score(Last(kept)), 3))
                           /\ apc' = "loop"
    /\ UNCHANGED <<ctrlVars, workVars, inputVars>>

\* ------------------------------------- ranks 2..: processing, run_docking
\* The loop of run_docking (lines 533-563) from item i on: the score lines it
\* appends to pose_scores, and whether an exception left the function.  A
\* ligand whose set_ligand_from_string or dock raises is skipped (lines
\* 537-546); a line is appended when score <= float(minimum_viable_score).
DockedFrom(unit, items, i) ==
    [j \in 1..(Len(items) - i + 1) |->
        [name |-> <<unit, j + i - 1>>, score |-> items[j + i - 1].score,
         fault |-> items[j + i - 1].fault]]

ScoreLines(docked) ==
    [j \in 1..Len(docked) |-> [name |-> docked[j].name, score |-> docked[j].score]]

dock_items_unfiltered(unit, items, i, mvs) ==
    LET docked == DockedFrom(unit, items, i)
        Kept(d) == d.fault # "dock"
    IN [raised |-> \E j \in 1..Len(docked) : docked[j].fault = "energies",
        scores |-> ScoreLines(SelectSeq(docked, Kept))]

\* The loop of run_docking (lines 533-563) from ligand i on.  A failure of
\* set_ligand_from_string or dock is caught and the ligand skipped (lines
\* 538-547); the read of the energies (line 548) is outside every try, so its
\* failure leaves run_docking; the line of a ligand is appended (line 554)
\* before write_poses is called (line 556), so it stays when write_poses fails.
dock_items(unit, items, i, mvs) ==
    LET docked == DockedFrom(unit, items, i)
        Kept(d) == d.fault # "dock" /\ d.score <= mvs
    IN [raised |-> \E j \in 1..Len(docked) : docked[j].fault = "energies",
        scores |-> ScoreLines(SelectSeq(docked, Kept))]

\* run_docking (lines 523-580) on the dictionary of `unit`: the payload sent to
\* rank 1, if any.
run_docking(unit, mvs) ==
    IF unit = 0 THEN [sent |-> FALSE, scores |-> <<>>]
    ELSE IF library[unit].items = <<>> THEN [sent |-> FALSE, scores |-> <<>>]
    ELSE LET r == dock_items(unit, library[unit].items, 1, mvs)
         IN [sent |-> ~r.raised, scores |-> r.scores]

WorkerReady_eager(w) ==
    /\ wpc[w] = "await_preprocess"
    /\ chan[0][w] # <<>>
    /\ chan' = Send(Send(Send(Recv(chan, 0, w), w, 0, Text("ready to go")),
                         w, 0, Msg("rank", w, 0)), w, 0, Msg("rank", w, 0))
    /\ wpc' = [wpc EXCEPT ![w] = "await_response"]
    /\ UNCHANGED <<wligands, ctrlVars, aggVars, inputVars>>

\* Lines 789-793 and 444-446: wait for rank 0, answer 'ready to go', enter
\* processing and ask for work.
WorkerReady(w) ==
    /\ wpc[w] = "await_preprocess"
    /\ chan[0][w] # <<>>
    /\ chan' = Send(Send(Recv(chan, 0, w), w, 0, Text("ready to go")),
                    w, 0, Msg("rank", w, 0))
    /\ wpc' = [wpc EXCEPT ![w] = "await_response"]
    /\ UNCHANGED <<wligands, ctrlVars, aggVars, inputVars>>

\* Lines 446-477 and 444-445: one response from rank 0.
WorkerResponse(w) ==
    /\ wpc[w] = "await_response"
    /\ chan[0][w] # <<>>
    /\ LET response == Head(chan[0][w])
           ch1 == Recv(chan, 0, w)
       IN IF IsText(response, "no more ligands")
          THEN /\ chan' = Send(ch1, w, 0,
                               Text("message received--proceed to post-processing"))
               /\ wpc' = [wpc EXCEPT ![w] = "done"]
               /\ UNCHANGED wligands
          ELSE LET mvs == response.val[1]
                   ligand_set_path == response.val[2]
                   loaded == IF library[ligand_set_path].decode = "raise"
                             THEN wligands[w] ELSE ligand_set_path
                   docked == run_docking(loaded, mvs)
                   ch2 == IF docked.sent
                          THEN Send(ch1, w, 1, Msg("batch", docked.scores, 0))
                          ELSE ch1
               IN /\ wligands' = [wligands EXCEPT ![w] = loaded]
                  /\ chan' = Send(ch2, w, 0, Msg("rank", w, 0))
                  /\ UNCHANGED wpc
    /\ UNCHANGED <<ctrlVars, aggVars, inputVars>>

\* ------------------------------------------------------ specification
Next ==
    \/ ControllerStart
    \/ ControllerHandshake
    \/ ControllerDispatch
    \/ ControllerDrain
    \/ ControllerRecvStopped
    \/ ControllerRecvFinal
    \/ AggregatorReady
    \/ AggregatorStart
    \/ AggregatorLoop
    \/ \E w \in Workers : WorkerReady(w)
    \/ \E w \in Workers : WorkerResponse(w)

Spec == Init /\ [][Next]_vars

ShippedSpec == ShippedInit /\ [][Next]_vars

FaultSpec == FaultInit /\ [][Next]_vars

ItemFaultSpec == ItemFaultInit /\ [][Next]_vars

BulkSpec == BulkInit /\ [][Next]_vars

\* ------------------------------------- examples/sortTest.py: remember_MVS
\* The test harness runs the same three roles on made-up data: a "ligand set"
\* is a list of integers, the docking score of an integer is its square root
\* (here the integer itself: only the order of scores matters), and rank 1
\* merges every batch into its sorted list at once (sort_with_MVS).  The
\* harness is modelled on the variables of the application: library[u] is the
\* u-th list prep_ligands made, lines_to_keep and sorted_scores hold scores.
HARNESS_MVS == 100
HARNESS_KEEP == 1000
HarnessScores == {1, 2, 3}
HarnessUnits == UNION {[1..n -> HarnessScores] : n \in 1..MaxItems}

HarnessInit ==
    \E n \in 1..MaxUnits :
        /\ library \in [1..n -> HarnessUnits]
        /\ number = HARNESS_KEEP
        /\ ligands = walk_paths(n)
        /\ work_units = 1..n
        /\ chan = EmptyChan
        /\ cpc = "start"
        /\ pre_responses = 0
        /\ minimum_viable_score = HARNESS_MVS
        /\ current_responses = 0
        /\ sorted_scores = <<>>
        /\ apc = "await_preprocess"
        /\ lines_to_keep = <<>>
        /\ agg_mvs = HARNESS_MVS
        /\ wpc = [w \in Workers |-> "await_preprocess"]
        /\ wligands = [w \in Workers |-> 0]

\* sorted(..., key=float) on a list of scores.
RECURSIVE InsertNum(_, _)
InsertNum(sortedNums, x) ==
    IF sortedNums = <<>> THEN <<x>>
    ELSE IF Last(sortedNums) <= x THEN Append(sortedNums, x)
    ELSE Append(InsertNum(Front(sortedNums), x), Last(sortedNums))

RECURSIVE SortedNums(_)
SortedNums(nums) ==
    IF nums = <<>> THEN <<>> ELSE InsertNum(SortedNums(Front(nums)), Last(nums))

\* Lines 269-274.
sort_with_MVS(top_scores, scores) ==
    LET results_sorted == SortedNums(top_scores \o scores)
    IN SubSeq(results_sorted, 1, Min(HARNESS_KEEP, Len(results_sorted)))

\* Lines 304-324: the scores run_docking_MVS puts in its payload.
run_docking_MVS(ligand_list, mvs) ==
    LET Viable(docking_score) == docking_score < mvs
    IN SelectSeq(ligand_list, Viable)

\* Lines 43-83 (sort_for_rank1 and delete_files(1000) of sort_then_trim) run
\* over the scores of every ligand: the 1000 lowest, ascending.
sort_then_trim(all_scores) ==
    SubSeq(SortedNums(all_scores), 1, Min(HARNESS_KEEP, Len(all_scores)))

\* Lines 362-364.
RememberStart ==
    /\ cpc = "start"
    /\ chan' = SendAll(chan, 0, Ranks \ {0}, Text("request work"))
    /\ cpc' = "handshake"
    /\ UNCHANGED <<ligands, pre_responses, minimum_viable_score, current_responses,
                   sorted_scores, aggVars, workVars, inputVars>>

\* Lines 366-374: one receive of the handshake loop.
RememberHandshake ==
    /\ cpc = "handshake"
    /\ \E r \in Ranks \ {0} :
        /\ chan[r][0] # <<>>
        /\ LET response == Head(chan[r][0])
               ch1 == Recv(chan, r, 0)
               count == IF IsText(response, "ready") THEN pre_responses + 1
                        ELSE pre_responses
           IN /\ pre_responses' = count
              /\ IF count # SIZE - 1
                 THEN /\ chan' = ch1
                      /\ cpc' = "handshake"
                 ELSE /\ chan' = Send(ch1, 0, 1,
                                      Msg("text", "Rank 1 will be ready to clean as we go", 1))
                      /\ cpc' = "dispatch"
    /\ UNCHANGED <<ligands, minimum_viable_score, current_responses, sorted_scores,
                   aggVars, workVars, inputVars>>

RememberDispatch_nowait ==
    /\ cpc = "dispatch"
    /\ \E r \in Ranks \ {0} :
        /\ chan[r][0] # <<>>
        /\ LET source == Head(chan[r][0])
               ch1 == Recv(chan, r, 0)
               payload == Msg("payload", <<minimum_viable_score, library[Head(ligands)]>>, 0)
           IN /\ ligands' = Tail(ligands)
              /\ IF source.kind # "rank"
                 THEN /\ chan' = ch1
                      /\ cpc' = "crashed"
                 ELSE IF Tail(ligands) # <<>>
                 THEN /\ chan' = Send(ch1, 0, source.val, payload)
                      /\ cpc' = "dispatch"
                 ELSE /\ chan' = AfterDispatch(Send(ch1, 0, source.val, payload))
                      /\ cpc' = "drain"
    /\ UNCHANGED <<pre_responses, minimum_viable_score, current_responses, sorted_scores,
                   aggVars, workVars, inputVars>>

\* Lines 380-385: a message from any source is taken to be a work request and
\* answered with the current MVS and the first ligand set of the queue.
RememberDispatch ==
    /\ cpc = "dispatch"
    /\ \E r \in Ranks \ {0} :
        /\ chan[r][0] # <<>>
        /\ LET source == Head(chan[r][0])
               ch1 == Recv(chan, r, 0)
               payload == Msg("payload", <<minimum_viable_score, library[Head(ligands)]>>, 0)
           IN /\ ligands' = Tail(ligands)
              /\ IF source.kind # "rank"
                 THEN /\ chan' = ch1
                      /\ cpc' = "crashed"
                 ELSE /\ chan' = Send(ch1, 0, source.val, payload)
                      /\ cpc' = "await_mvs"
    /\ UNCHANGED <<pre_responses, minimum_viable_score, current_responses, sorted_scores,
                   aggVars, workVars, inputVars>>

\* Line 386, then lines 380 and 390-393: COMM.recv(source=1), whatever its tag.
RememberAwaitMVS ==
    /\ cpc = "await_mvs"
    /\ chan[1][0] # <<>>
    /\ minimum_viable_score' = Head(chan[1][0]).val
    /\ IF ligands # <<>>
       THEN /\ chan' = Recv(chan, 1, 0)
            /\ cpc' = "dispatch"
       ELSE /\ chan' = AfterDispatch(Recv(chan, 1, 0))
            /\ cpc' = "drain"
    /\ UNCHANGED <<ligands, pre_responses, current_responses, sorted_scores,
                   aggVars, workVars, inputVars>>

\* Lines 395-402: one receive of the drain loop.
RememberDrain ==
    /\ cpc = "drain"
    /\ \E r \in Ranks \ {0} :
        /\ chan[r][0] # <<>>
        /\ LET response == Head(chan[r][0])
               ch1 == Recv(chan, r, 0)
               count == IF IsText(response, "proceed to post-processing")
                        THEN current_responses + 1 ELSE current_responses
           IN /\ current_responses' = count
              /\ IF count # SIZE - 2
                 THEN /\ chan' = ch1
                      /\ cpc' = "drain"
                 ELSE /\ chan' = Send(ch1, 0, 1, Text("STOP"))
                      /\ cpc' = "await_final"
    /\ UNCHANGED <<ligands, pre_responses, minimum_viable_score, sorted_scores,
                   aggVars, workVars, inputVars>>

\* Line 403: COMM.recv(source=1, tag=2); the list received is the result.
RememberRecvFinal ==
    /\ cpc = "await_final"
    /\ FirstTagged(chan[1][0], 2) # 0
    /\ LET i == FirstTagged(chan[1][0], 2)
       IN /\ chan' = [chan EXCEPT ![1][0] = RemoveAt(@, i)]
          /\ sorted_scores' = chan[1][0][i].val
    /\ cpc' = "done"
    /\ UNCHANGED <<ligands, pre_responses, minimum_viable_score, current_responses,
                   aggVars, workVars, inputVars>>

\* Lines 414-415.
CleanerReady ==
    /\ apc = "await_preprocess"
    /\ chan[0][1] # <<>>
    /\ chan' = Send(Recv(chan, 0, 1), 1, 0, Text("ready"))
    /\ apc' = "await_start"
    /\ UNCHANGED <<lines_to_keep, agg_mvs, ctrlVars, workVars, inputVars>>

\* Lines 416-418.
CleanerStart ==
    /\ apc = "await_start"
    /\ chan[0][1] # <<>>
    /\ chan' = Recv(chan, 0, 1)
    /\ apc' = IF IsText(Head(chan[0][1]), "Rank 1 will be ready to clean as we go")
              THEN "loop" ELSE "done"
    /\ UNCHANGED <<lines_to_keep, agg_mvs, ctrlVars, workVars, inputVars>>

\* Lines 280-299: one receive of the loop of clean_and_update_MVS.
clean_and_update_MVS ==
    /\ apc = "loop"
    /\ \E r \in Ranks \ {1} :
        /\ chan[r][1] # <<>>
        /\ LET message == Head(chan[r][1])
               ch1 == Recv(chan, r, 1)
           IN IF IsText(message, "STOP")
              THEN /\ chan' = Send(Send(ch1, 1, 0,
                                        Msg("text", "stopping clean_and_update_MVS", 1)),
                                   1, 0, Msg("lines", lines_to_keep, 2))
                   /\ apc' = "done"
                   /\ UNCHANGED <<lines_to_keep, agg_mvs>>
              ELSE IF message.kind # "batch"
              THEN /\ chan' = ch1
                   /\ UNCHANGED <<apc, lines_to_keep, agg_mvs>>
              ELSE LET scores == message.val
                       kept == IF Len(scores) > 0 THEN sort_with_MVS(lines_to_keep, scores)
                               ELSE lines_to_keep
                   IN IF kept = <<>>
                      THEN \* IndexError at line 292
                           /\ chan' = ch1
                           /\ apc' = "crashed"
                           /\ UNCHANGED <<lines_to_keep, agg_mvs>>
                      ELSE /\ lines_to_keep' = kept
                           /\ agg_mvs' = Last(kept)
                           /\ chan' = Send(ch1, 1, 0, Msg("mvs", Last(kept), 0))
                           /\ apc' = "loop"
    /\ UNCHANGED <<ctrlVars, workVars, inputVars>>

\* Lines 421-423 and 336.
ProcessingReady(w) ==
    /\ wpc[w] = "await_preprocess"
    /\ chan[0][w] # <<>>
    /\ chan' = Send(Send(Recv(chan, 0, w), w, 0, Text("ready")), w, 0, Msg("rank", w, 0))
    /\ wpc' = [wpc EXCEPT ![w] = "await_response"]
    /\ UNCHANGED <<wligands, ctrlVars, aggVars, inputVars>>

\* Lines 337-346 and 336: one response from rank 0.
processing_MVS(w) ==
    /\ wpc[w] = "await_response"
    /\ chan[0][w] # <<>>
    /\ LET response == Head(chan[0][w])
           ch1 == Recv(chan, 0, w)
       IN IF IsText(response, "no more ligands")
          THEN /\ chan' = Send(ch1, w, 0, Text("proceed to post-processing"))
               /\ wpc' = [wpc EXCEPT ![w] = "done"]
          ELSE LET mvs == response.val[1]
                   ligand_list == response.val[2]
                   ch2 == IF ligand_list # <<>>
                          THEN Send(ch1, w, 1,
                                    Msg("batch", run_docking_MVS(ligand_list, mvs), 0))
                          ELSE ch1
               IN /\ chan' = Send(ch2, w, 0, Msg("rank", w, 0))
                  /\ UNCHANGED wpc
    /\ UNCHANGED <<wligands, ctrlVars, aggVars, inputVars>>

HarnessNext ==
    \/ RememberStart
    \/ RememberHandshake
    \/ RememberDispatch
    \/ RememberAwaitMVS
    \/ RememberDrain
    \/ RememberRecvFinal
    \/ CleanerReady
    \/ CleanerStart
    \/ clean_and_update_MVS
    \/ \E w \in Workers : ProcessingReady(w)
    \/ \E w \in Workers : processing_MVS(w)

HarnessSpec == HarnessInit /\ [][HarnessNext]_vars

\* Every rank is a process of its own: a rank whose receive can complete
\* does complete it.
HarnessFairness ==
    /\ WF_vars(RememberStart)
    /\ WF_vars(RememberHandshake)
    /\ WF_vars(RememberDispatch)
    /\ WF_vars(RememberAwaitMVS)
    /\ WF_vars(RememberDrain)
    /\ WF_vars(RememberRecvFinal)
    /\ WF_vars(CleanerReady)
    /\ WF_vars(CleanerStart)
    /\ WF_vars(clean_and_update_MVS)
    /\ \A w \in Workers : WF_vars(ProcessingReady(w)) /\ WF_vars(processing_MVS(w))

HarnessFairSpec == HarnessSpec /\ HarnessFairness

\* ------------------------------------------- post-processing: final sort
\* The two final sorts of the repository as functions of the score lines they
\* are given, applied by rank 0 when every other rank has finished.  The lines
\* are held in lines_to_keep: for final_sort of my_autodock.py they are the list
\* rank 1 sent (line 763), for sort of autodock.py the lines of
\* merged_results.txt (lines 542-553).
FinalizeInputs ==
    {[i \in 1..Len(q) |-> [name |-> <<1, i>>, score |-> q[i]]] :
        q \in UNION {[1..n -> Scores] : n \in 0..MaxLines}}

FinalizeInit ==
    /\ number \in Numbers
    /\ library = <<>>
    /\ ligands = <<>>
    /\ work_units = {}
    /\ chan = EmptyChan
    /\ cpc = "finalize"
    /\ pre_responses = pre_responses_target
    /\ minimum_viable_score = INITIAL_MVS
    /\ current_responses = current_responses_target
    /\ sorted_scores = <<>>
    /\ apc = "done"
    /\ lines_to_keep \in FinalizeInputs
    /\ agg_mvs = INITIAL_MVS
    /\ wpc = [w \in Workers |-> "done"]
    /\ wligands = [w \in Workers |-> 0]

\* autodock.py lines 556-557: sorted(result[:NUMBER_OF_OUTPUTS], key=score).
sort(result, k) == SortedByScore(SubSeq(result, 1, Min(k, Len(result))))

\* my_autodock.py line 768.
FinalSortStep ==
    /\ cpc = "finalize"
    /\ sorted_scores' = final_sort(lines_to_keep, NUMBER_OF_OUTPUTS(number))
    /\ cpc' = "done"
    /\ UNCHANGED <<ligands, pre_responses, minimum_viable_score, current_responses,
                   chan, aggVars, workVars, inputVars>>

\* autodock.py line 168.
SortStep ==
    /\ cpc = "finalize"
    /\ sorted_scores' = sort(lines_to_keep, NUMBER_OF_OUTPUTS(number))
    /\ cpc' = "sorted"
    /\ UNCHANGED <<ligands, pre_responses, minimum_viable_score, current_responses,
                   chan, aggVars, workVars, inputVars>>

FinalizeNext ==
    \/ FinalSortStep
    \/ SortStep

FinalizeSpec == FinalizeInit /\ [][FinalizeNext]_vars

\* ------------------------------------------------- properties: helpers
\* Every ligand of every queued batch file with the score docking gives it.
AllLines ==
    {[name |-> <<u, i>>, score |-> library[u].items[i].score] :
        <<u, i>> \in {p \in work_units \X (1..(MaxItems + SLACK + 1)) :
                        p[2] <= Len(library[p[1]].items)}}

ScoresOf(lines) == [i \in 1..Len(lines) |-> lines[i].score]

NameBefore(a, b) == a[1] < b[1] \/ (a[1] = b[1] /\ a[2] <= b[2])
LineBefore(a, b) == a.score < b.score \/ (a.score = b.score /\ NameBefore(a.name, b.name))

\* The k lowest lines of a set, ascending by score, ties by item id.
RECURSIVE LowestLines(_, _)
LowestLines(S, k) ==
    IF S = {} \/ k <= 0 THEN <<>>
    ELSE LET m == CHOOSE l \in S : \A x \in S : LineBefore(l, x)
         IN <<m>> \o LowestLines(S \ {m}, k - 1)

IsAscending(lines) == \A i \in 1..(Len(lines) - 1) : lines[i].score <= lines[i + 1].score

K == NUMBER_OF_OUTPUTS(number)

HasKind(q, kind) == \E i \in 1..Len(q) : q[i].kind = kind
HasText(q, text) == \E i \in 1..Len(q) : IsText(q[i], text)

\* Rank r has sent 'ready to go' and rank 0 has received it.
ReadyReceived(r) ==
    /\ IF r = 1 THEN apc # "await_preprocess" ELSE wpc[r] # "await_preprocess"
    /\ ~HasText(chan[r][0], "ready to go")
AllReadyReceived == \A r \in Ranks \ {0} : ReadyReceived(r)

\* Worker w has sent its Done acknowledgement and rank 0 has received it.
DoneReceived(w) ==
    /\ wpc[w] = "done"
    /\ ~HasText(chan[w][0], "message received--proceed to post-processing")

StopSent == cpc \in {"await_stopped", "await_final", "done"}
Terminated == cpc = "done" /\ apc = "done" /\ \A w \in Workers : wpc[w] = "done"

\* A step in which the aggregator takes a batch that brings its list to the
\* compaction trigger (line 318).
CompactionStep ==
    /\ apc = "loop"
    /\ \E w \in Workers :
        /\ chan[w][1] # <<>>
        /\ chan'[w][1] = Tail(chan[w][1])
        /\ Len(lines_to_keep \o Head(chan[w][1]).val) >= K + SLACK

\* ------------------------------------------------------------- claims
\* C1: when the controller has written its final output, the output is the K
\* lowest scores among all ligands of all batch files, in ascending order.
C1_FinalIsTopK ==
    cpc = "done" => ScoresOf(sorted_scores) = ScoresOf(LowestLines(AllLines, K))

\* C2: the job always terminates: the only state in which no rank can take a
\* step is the one where the controller, the aggregator and every worker have
\* left their loops and the final sort has run.
C2_AlwaysTerminates == (~ENABLED Next) => Terminated

\* C3: when the aggregator has handled 'stop working' and sent its final list,
\* no result batch of any worker is still undelivered.
C3_NoBatchLostAtStop ==
    apc = "done" => \A w \in Workers : ~HasKind(chan[w][1], "batch")

\* C4: when every line of the stream (every ligand of every queued batch file,
\* none filtered out, none undelivered) has reached the aggregator before it
\* stops, the list the aggregator returns is the K lowest lines of the stream,
\* ascending by score, ties by item id.
C4_AggregatorReturnsTopK ==
    (apc = "done" /\ SeqRange(lines_to_keep) = AllLines)
        => lines_to_keep = LowestLines(AllLines, K)

C6_FinalAscendingAtMostK ==
    cpc = "done" => IsAscending(sorted_scores) /\ Len(sorted_scores) <= K

C6_Witness ==
    /\ cpc = "done"
    /\ Len(lines_to_keep) > K
    /\ ~IsAscending(lines_to_keep)
    /\ sorted_scores # <<>>

\* C7: a step in which the controller sends a dispatch (threshold, unit) starts
\* in a state where it has received Ready from every worker and the aggregator.
C7_HandshakeBarrier ==
    [][(\E w \in Workers : /\ Len(chan'[0][w]) > Len(chan[0][w])
                           /\ Last(chan'[0][w]).kind = "payload")
       => AllReadyReceived]_vars

C7_Witness == AllReadyReceived /\ \E w \in Workers : HasKind(chan[0][w], "payload")

\* C8: no work request of a worker is in flight or served before the controller
\* has received Ready from every worker and from the aggregator.
C8_NoRequestBeforeAllReady ==
    (\E w \in Workers : HasKind(chan[w][0], "rank")) => AllReadyReceived

\* C9: the controller has sent 'stop working' to the aggregator only if it has
\* received the Done acknowledgement of every worker.
C9_DrainBarrier == StopSent => \A w \in Workers : DoneReceived(w)

C9_Witness == cpc = "await_stopped" /\ \A w \in Workers : DoneReceived(w)

\* C10: once the controller has sent 'stop working' and waits for the reply,
\* the aggregator is still serving its loop (and will answer) or its Stopped
\* acknowledgement and final list are on their way, in that order.
C10_StopIsAnswered ==
    cpc = "await_stopped" =>
        \/ apc \in {"await_start", "loop"}
        \/ /\ apc = "done"
           /\ FirstTagged(chan[1][0], 1) # 0
           /\ FirstTagged(chan[1][0], 2) > FirstTagged(chan[1][0], 1)

\* C11: admission soundness.  A worker puts a line in a result batch only if its
\* score is <= the threshold stamped on the dispatch it is serving; the
\* aggregator keeps only lines it held or received in a batch; the final output
\* holds only lines the aggregator returned.  Hence every line of the final
\* output has a score <= the threshold active when it was produced.
C11_AdmissionSound ==
    [][/\ \A w \in Workers :
            Len(chan'[w][1]) > Len(chan[w][1]) =>
                \A i \in 1..Len(Last(chan'[w][1]).val) :
                    Last(chan'[w][1]).val[i].score <= Head(chan[0][w]).val[1]
       /\ SeqRange(lines_to_keep') \subseteq
              SeqRange(lines_to_keep) \cup
              UNION {SeqRange(Head(chan[w][1]).val) :
                        w \in {x \in Workers : chan[x][1] # <<>>}}
       /\ SeqRange(sorted_scores') \subseteq SeqRange(lines_to_keep)]_vars

\* A batch in flight holds some lines of its unit and lacks others.
C11_Witness ==
    \E w \in Workers : \E i \in 1..Len(chan[w][1]) :
        /\ chan[w][1][i].val # <<>>
        /\ Len(chan[w][1][i].val) < Len(library[chan[w][1][i].val[1].name[1]].items)

\* C12: with zero work units enumerated the controller sends no dispatch and
\* never enters the dispatch loop, no rank dies, the only state where no rank
\* can take a step is the terminated one, and the final output is empty.
C12_ZeroUnits ==
    work_units = {} =>
        /\ \A w \in Workers : ~HasKind(chan[0][w], "payload")
        /\ cpc \notin {"dispatch", "crashed"}
        /\ apc # "crashed"
        /\ (~ENABLED Next) => Terminated
        /\ cpc = "done" => sorted_scores = <<>>

C12_Witness == work_units = {} /\ Terminated /\ sorted_scores = <<>>

\* C13: if some queued work unit fails to decode, the job still completes (the
\* only state where no rank can take a step is the terminated one) and every
\* line of the final output names a ligand of a unit that decoded.
C13_DecodeFailureSkipped ==
    (\E u \in work_units : library[u].decode # "ok") =>
        /\ (~ENABLED Next) => Terminated
        /\ cpc = "done" =>
              \A i \in 1..Len(sorted_scores) :
                  library[sorted_scores[i].name[1]].decode = "ok"

\* C14: the aggregator never aborts because of a batch: while it has not been
\* told to stop it is still serving its receive loop, whatever batches arrived
\* (an empty batch on an empty buffer, a batch that triggers compaction).
C14_AggregatorNeverAborts == apc # "crashed"

\* C15: for a requested number of outputs above 1000 the effective K is 1000 in
\* every role: a step of the aggregator that triggers compaction leaves at most
\* 1000 lines in its list, and the final output holds at most 1000 lines.
C15_ClampedTo1000 ==
    [][number > MAX_OUTPUTS =>
          /\ K = MAX_OUTPUTS
          /\ CompactionStep => Len(lines_to_keep') <= MAX_OUTPUTS
          /\ cpc' = "done" => Len(sorted_scores') <= MAX_OUTPUTS]_vars

Expected(phase, m) ==
    CASE phase = "handshake" -> IsText(m, "ready to go")
      [] phase = "dispatch" -> m.tag = 3 \/ m.kind = "rank"
      [] phase = "drain" -> \/ IsText(m, "message received--proceed to post-processing")
                            \/ m.tag = 3
                            \/ m.kind = "rank"

\* C17: whenever the controller, in the handshake, the dispatch loop or the
\* drain, receives a message that loop does not expect, the job is aborted:
\* the message is not silently dropped and not served as a work request.
C17_UnexpectedIsFatal ==
    [][\A r \in Ranks \ {0} :
          (/\ cpc \in {"handshake", "dispatch", "drain"}
           /\ chan[r][0] # <<>>
           /\ chan'[r][0] = Tail(chan[r][0])
           /\ ~Expected(cpc, Head(chan[r][0])))
          => cpc' = "crashed"]_vars

\* C18: whatever batches are delivered, immediately after a step of the
\* aggregator that triggers compaction its list holds at most
\* NUMBER_OF_OUTPUTS + SLACK lines.
C18_BoundedAfterCompaction ==
    [][CompactionStep => Len(lines_to_keep') <= K + SLACK]_vars

\* The docking scores of every ligand of every ligand set of the harness.
RECURSIVE HarnessAllScores(_)
HarnessAllScores(n) == IF n = 0 THEN <<>> ELSE HarnessAllScores(n - 1) \o library[n]

\* C19: in the test harness the list remember_MVS ends with is the list an
\* unfiltered sort-then-trim gives on the same ligand sets: the 1000 lowest
\* scores of all ligands, ascending.
C19_FilterChangesNothing ==
    cpc = "done" => sorted_scores = sort_then_trim(HarnessAllScores(Len(library)))

\* C20: the work queue built at startup holds every batch file found under the
\* ligand library, each exactly once, and the controller tells the workers
\* there is no more work only when the queue is empty: every batch file is
\* dispatched before that.
C20_QueueHoldsEveryFile ==
    /\ work_units = DOMAIN library
    /\ cpc = "start" => Len(ligands) = Len(library)
    /\ (\E w \in Workers : HasText(chan[0][w], "no more ligands")) => ligands = <<>>

\* A step in which worker w takes a dispatch (threshold, unit) from rank 0.
ServedPayload(w) ==
    /\ chan[0][w] # <<>>
    /\ Head(chan[0][w]).kind = "payload"
    /\ chan'[0][w] = Tail(chan[0][w])

\* The line of ligand i of unit u is in the batch worker w sends in this step.
Reported(w, u, i) ==
    /\ Len(chan'[w][1]) > Len(chan[w][1])
    /\ [name |-> <<u, i>>, score |-> library[u].items[i].score]
           \in SeqRange(Last(chan'[w][1]).val)

\* Fewer than K of all queued ligands score strictly better than s: s is <= the
\* K-th lowest score of any set of records produced so far.
WithinTopK(s) == Cardinality({l \in AllLines : l.score < s}) < K

\* C21: a worker never under-admits: when it docks a unit it rejects no ligand
\* whose score is <= the K-th lowest score among the records produced so far
\* (none at all while fewer than K exist).
C21_NeverUnderAdmits ==
    [][\A w \in Workers :
          ServedPayload(w) =>
              LET u == Head(chan[0][w]).val[2]
              IN \A i \in 1..Len(library[u].items) :
                     WithinTopK(library[u].items[i].score) => Reported(w, u, i)]_vars

\* A threshold that rejects no score a docking can return.
AdmitsEverything(v) == \A sc \in Scores : sc <= v

\* The aggregator sends a threshold update to rank 0 in this step.
ThresholdSent ==
    /\ Len(chan'[1][0]) > Len(chan[1][0])
    /\ Last(chan'[1][0]).kind = "mvs"

\* C22: whenever the aggregator reports a threshold while its list holds fewer
\* than K lines, the value is the admit-everything sentinel; when it holds K
\* lines after a compaction, the value is the score of the K-th (last) line.
C22_ThresholdValue ==
    [][ThresholdSent =>
          /\ Len(lines_to_keep') < K => AdmitsEverything(Last(chan'[1][0]).val)
          /\ CompactionStep =>
                /\ Len(lines_to_keep') = K
                /\ Last(chan'[1][0]).val = line_score(lines_to_keep'[K])]_vars

\* kept is the k lowest-score lines of the list all, ascending by score.
IsLowestOf(kept, all, k) ==
    /\ Len(kept) = Min(k, Len(all))
    /\ IsAscending(kept)
    /\ SeqRange(kept) \subseteq SeqRange(all)
    /\ \A l \in SeqRange(all) \ SeqRange(kept) :
           \A m \in SeqRange(kept) : m.score <= l.score

\* C23: compaction runs exactly when the list reaches K + SLACK lines after a
\* batch is appended: such a step leaves the K lowest-score lines of the list,
\* ascending by score, and any other batch leaves the list as appended.
C23_CompactionExact ==
    [][\A w \in Workers :
          (apc = "loop" /\ chan[w][1] # <<>> /\ chan'[w][1] = Tail(chan[w][1])) =>
              LET appended == lines_to_keep \o Head(chan[w][1]).val
              IN IF Len(appended) >= K + SLACK
                 THEN IsLowestOf(lines_to_keep', appended, K)
                 ELSE lines_to_keep' = appended]_vars

\* C24: the aggregator sends a threshold update to the controller exactly in
\* the steps that trigger a compaction: one message per compaction, none for
\* a batch that does not trigger one.
C24_UpdateOnlyAtCompaction == [][ThresholdSent <=> CompactionStep]_vars

\* The aggregator has handled no batch yet, so it has sent no threshold update
\* and the controller has received none.
NoUpdateYet == lines_to_keep = <<>> /\ apc # "crashed" /\ ~HasKind(chan[1][0], "mvs")

\* C25: before the controller has received any threshold update the threshold
\* on its dispatches admits everything: a worker serving such a dispatch
\* reports every ligand it docks, whatever its score.
C25_InitialAdmitsAll ==
    [][\A w \in Workers :
          (ServedPayload(w) /\ NoUpdateYet) =>
              LET u == Head(chan[0][w]).val[2]
              IN \A i \in 1..Len(library[u].items) :
                     library[u].items[i].fault = "ok" => Reported(w, u, i)]_vars

\* The messages a step appends to the channel from src to dst.
NewMsgs(src, dst) ==
    IF Len(chan'[src][dst]) > Len(chan[src][dst])
    THEN SubSeq(chan'[src][dst], Len(chan[src][dst]) + 1, Len(chan'[src][dst]))
    ELSE <<>>

\* The dispatch loop takes a threshold update (tag 3) from rank r.
UpdateHandled(r) ==
    /\ cpc = "dispatch"
    /\ chan[r][0] # <<>>
    /\ Head(chan[r][0]).tag = 3
    /\ chan'[r][0] = Tail(chan[r][0])

\* C26: the controller's threshold is the initial value until the dispatch
\* loop, changes only when the loop handles a threshold update and then becomes
\* that update's value; every dispatch is stamped with it; and handling an
\* update neither pops the queue nor sends a message.
C26_DispatchCarriesLastUpdate ==
    [][/\ cpc \in {"start", "handshake"} => minimum_viable_score = INITIAL_MVS
       /\ minimum_viable_score' # minimum_viable_score => \E r \in Ranks : UpdateHandled(r)
       /\ \A r \in Ranks :
              UpdateHandled(r) =>
                  /\ minimum_viable_score' = Head(chan[r][0]).val
                  /\ ligands' = ligands
                  /\ \A src, dst \in Ranks : NewMsgs(src, dst) = <<>>
       /\ \A w \in Workers :
              \A i \in 1..Len(NewMsgs(0, w)) :
                  NewMsgs(0, w)[i].kind = "payload" =>
                      NewMsgs(0, w)[i].val[1] = minimum_viable_score]_vars

\* A dispatch stamped with a received update is in flight.
C26_Witness ==
    \E w \in Workers : \E i \in 1..Len(chan[0][w]) :
        /\ chan[0][w][i].kind = "payload"
        /\ chan[0][w][i].val[1] # INITIAL_MVS

\* The units named by the dispatches in flight, in channel order.
RECURSIVE PayloadUnits(_)
PayloadUnits(q) ==
    IF q = <<>> THEN <<>>
    ELSE IF Head(q).kind = "payload" THEN <<Head(q).val[2]>> \o PayloadUnits(Tail(q))
    ELSE PayloadUnits(Tail(q))

NoRepeats(q) == \A i, j \in 1..Len(q) : q[i] = q[j] => i = j

\* C27: the queue changes only by the dispatch loop popping one unit; the
\* popped unit is the one dispatched, to one worker; no unit is in the queue
\* twice, in flight twice, or both queued and dispatched; and the queue never
\* grows, so a unit a worker failed on is not queued again.
C27_QueueOnlyPopped ==
    [][/\ ligands' # ligands =>
              /\ cpc = "dispatch"
              /\ ligands # <<>>
              /\ ligands' = Front(ligands)
              /\ \E w \in Workers :
                     /\ PayloadUnits(NewMsgs(0, w)) = <<Last(ligands)>>
                     /\ \A v \in Workers \ {w} : PayloadUnits(NewMsgs(0, v)) = <<>>
       /\ \A w \in Workers : PayloadUnits(NewMsgs(0, w)) # <<>> => ligands' # ligands
       /\ NoRepeats(ligands)
       /\ \A w \in Workers :
              /\ NoRepeats(PayloadUnits(chan[0][w]))
              /\ SeqRange(PayloadUnits(chan[0][w])) \cap SeqRange(ligands) = {}
              /\ \A v \in Workers \ {w} :
                     SeqRange(PayloadUnits(chan[0][w]))
                         \cap SeqRange(PayloadUnits(chan[0][v])) = {}]_vars

\* A worker has failed to decode a unit it was sent, a later unit has been
\* dispatched since, and the failed unit is not in the queue.
C27_Witness ==
    \E u \in work_units :
        /\ library[u].decode = "raise"
        /\ u \notin SeqRange(ligands)
        /\ \A v \in Workers : u \notin SeqRange(PayloadUnits(chan[0][v]))
        /\ \E v \in Workers : PayloadUnits(chan[0][v]) # <<>>

\* How many 'no more ligands' messages a channel holds.
NoMoreWorkIn(q) == Cardinality({i \in 1..Len(q) : IsText(q[i], "no more ligands")})

\* The controller has left the dispatch loop.
DispatchOver == cpc \in {"drain", "await_stopped", "await_final", "done"}

\* C28: the step that sends 'no more ligands' leaves the queue empty and sends
\* one to every worker; counting the one a finished worker has taken, every
\* worker has been sent none before the dispatch loop is over and exactly one
\* after; and no dispatch is sent once the loop is over.
C28_NoMoreWorkOnce ==
    [][/\ (\E w \in Workers : NoMoreWorkIn(NewMsgs(0, w)) > 0) =>
              /\ ligands' = <<>>
              /\ ~DispatchOver
              /\ DispatchOver'
              /\ \A w \in Workers :
                     /\ NoMoreWorkIn(NewMsgs(0, w)) = 1
                     /\ IsText(Last(chan'[0][w]), "no more ligands")
       /\ \A w \in Workers :
              NoMoreWorkIn(chan[0][w]) + (IF wpc[w] = "done" THEN 1 ELSE 0)
                  = IF DispatchOver THEN 1 ELSE 0
       /\ DispatchOver => /\ ligands = <<>>
                           /\ \A w \in Workers : PayloadUnits(NewMsgs(0, w)) = <<>>]_vars

\* Every unit has been dispatched and 'no more ligands' is on its way to a
\* worker that still has a dispatch to serve.
C28_Witness ==
    /\ cpc = "drain"
    /\ work_units # {}
    /\ \E w \in Workers :
           /\ PayloadUnits(chan[0][w]) # <<>>
           /\ IsText(Last(chan[0][w]), "no more ligands")

\* How many messages of a kind, and how many given texts, a channel holds.
KindIn(q, kind) == Cardinality({i \in 1..Len(q) : q[i].kind = kind})
TextIn(q, text) == Cardinality({i \in 1..Len(q) : IsText(q[i], text)})

DoneText == "message received--proceed to post-processing"

\* C29: a worker moves only from awaiting pre-processing to requesting and
\* from requesting to done.  It never has more than one request unanswered (a
\* request in flight or a dispatch not yet served).  Serving a dispatch sends
\* at most one batch and then exactly one request, and batches are sent at no
\* other time.  Done is sent once, by the step that takes 'no more ligands',
\* and a worker that is done sends nothing.
C29_WorkerStateMachine ==
    [][\A w \in Workers :
          /\ wpc'[w] # wpc[w] =>
                 <<wpc[w], wpc'[w]>> \in {<<"await_preprocess", "await_response">>,
                                          <<"await_response", "done">>}
          /\ wpc[w] = "await_preprocess" => chan[w][0] = <<>> /\ chan[w][1] = <<>>
          /\ KindIn(chan[w][0], "rank") + Len(PayloadUnits(chan[0][w])) <= 1
          /\ IF ServedPayload(w)
             THEN /\ Len(NewMsgs(w, 1)) <= 1
                  /\ KindIn(NewMsgs(w, 1), "batch") = Len(NewMsgs(w, 1))
                  /\ NewMsgs(w, 0) = <<Msg("rank", w, 0)>>
             ELSE NewMsgs(w, 1) = <<>>
          /\ TextIn(NewMsgs(w, 0), DoneText) > 0 =>
                 /\ wpc[w] = "await_response"
                 /\ wpc'[w] = "done"
                 /\ chan[0][w] # <<>>
                 /\ IsText(Head(chan[0][w]), "no more ligands")
                 /\ chan'[0][w] = Tail(chan[0][w])
                 /\ NewMsgs(w, 0) = <<Text(DoneText)>>
          /\ wpc[w] # "done" => TextIn(chan[w][0], DoneText) = 0
          /\ wpc[w] = "done" =>
                 /\ TextIn(chan[w][0], DoneText) <= 1
                 /\ \A r \in Ranks : NewMsgs(w, r) = <<>>]_vars

\* A worker is done while a batch it reported for a unit is still in flight.
C29_Witness ==
    \E w \in Workers : wpc[w] = "done" /\ KindIn(chan[w][1], "batch") > 0

C31_ScoringFailureNotFatal ==
    [][\A w \in Workers :
          ServedPayload(w) =>
              LET mvs == Head(chan[0][w]).val[1]
                  u == Head(chan[0][w]).val[2]
                  items == library[u].items
              IN (\E j \in 1..Len(items) : items[j].fault \in {"dock", "energies"}) =>
                     /\ Len(NewMsgs(w, 1)) = 1
                     /\ \A i \in 1..Len(items) :
                            (items[i].fault = "ok" /\ items[i].score <= mvs) =>
                                Reported(w, u, i)]_vars

\* C32: a ligand whose docking, energy read or pose writing fails has no line
\* in the batch the worker sends for its unit.
C32_FailedItemSkipped ==
    [][\A w \in Workers :
          ServedPayload(w) =>
              LET u == Head(chan[0][w]).val[2]
                  items == library[u].items
              IN \A i \in 1..Len(items) :
                     items[i].fault # "ok" =>
                         \A k \in 1..Len(NewMsgs(w, 1)) :
                             \A l \in SeqRange(NewMsgs(w, 1)[k].val) : l.name # <<u, i>>]_vars

\* C33: the aggregator's list never holds more than NUMBER_OF_OUTPUTS + SLACK
\* lines, whatever the size of the batches delivered.
C33_BufferBounded == Len(lines_to_keep) <= K + SLACK

\* The aggregator takes 'stop working'.
StopHandled ==
    /\ apc = "loop"
    /\ chan[0][1] # <<>>
    /\ IsText(Head(chan[0][1]), "stop working")
    /\ chan'[0][1] = Tail(chan[0][1])

\* C34: the step that takes 'stop working' leaves the list as it is and sends
\* exactly that list, in that order and at that length, to rank 0; from then
\* on the aggregator takes no message and its list does not change.
C34_StopReturnsBufferVerbatim ==
    [][/\ StopHandled =>
              /\ lines_to_keep' = lines_to_keep
              /\ apc' = "done"
              /\ Len(NewMsgs(1, 0)) = 2
              /\ NewMsgs(1, 0)[2] = Msg("lines", lines_to_keep, 2)
       /\ apc = "done" =>
              /\ lines_to_keep' = lines_to_keep
              /\ apc' = "done"
              /\ \A r \in Ranks : Len(chan'[r][1]) >= Len(chan[r][1])]_vars

\* The aggregator has stopped with an unsorted list on its way to rank 0 and a
\* batch it will never take still in flight.
C34_Witness ==
    /\ apc = "done"
    /\ ~IsAscending(lines_to_keep)
    /\ \E i \in 1..Len(chan[1][0]) : chan[1][0][i] = Msg("lines", lines_to_keep, 2)
    /\ \E w \in Workers : HasKind(chan[w][1], "batch")

\* C35: whichever final sort rank 0 runs, its output is the NUMBER_OF_OUTPUTS
\* lowest-score lines of all the lines it was given, in ascending order.
C35_SortsBeforeTruncating ==
    cpc \in {"done", "sorted"} => IsLowestOf(sorted_scores, lines_to_keep, K)

\* Rank 0 takes a work request of worker w.
RequestTaken(w) ==
    /\ chan[w][0] # <<>>
    /\ Head(chan[w][0]).kind = "rank"
    /\ chan'[w][0] = Tail(chan[w][0])

\* C36: whenever rank 0 takes a worker's work request, in the handshake loop
\* or later, the same step sends that worker a reply (a dispatch or 'no more
\* ligands').
C36_NoRequestLost ==
    [][\A w \in Workers : RequestTaken(w) => NewMsgs(0, w) # <<>>]_vars

\* No ligand has two lines in a list of score lines.
OneLinePerItem(lines) == \A i, j \in 1..Len(lines) : lines[i].name = lines[j].name => i = j

C38_CutBeforeNextReceive ==
    [][/\ apc = "loop" => Len(lines_to_keep) < K + SLACK
       /\ CompactionStep => /\ apc' = "loop"
                             /\ Len(lines_to_keep') <= K]_vars

\* The units of the harness that are dispatched and whose threshold message
\* rank 0 has not taken yet: dispatches in flight, batches in flight,
\* threshold messages in flight.
RECURSIVE SumOver(_, _)
SumOver(f, dom) ==
    IF dom = {} THEN 0
    ELSE LET x == CHOOSE y \in dom : TRUE IN f[x] + SumOver(f, dom \ {x})

InProcess ==
    SumOver([w \in Workers |-> KindIn(chan[0][w], "payload") + KindIn(chan[w][1], "batch")],
            Workers)
    + KindIn(chan[1][0], "mvs")

\* The threshold that reflects every batch rank 1 has been sent so far.
ReportedThreshold == IF lines_to_keep = <<>> THEN HARNESS_MVS ELSE Last(lines_to_keep)

\* C39: in remember_MVS exactly one unit is in process while rank 0 waits for
\* the threshold message and none otherwise; every dispatch is stamped with
\* the threshold rank 1 computed from all the batches sent so far; and the
\* wait for the threshold message always ends.
C39_OneUnitAtATime ==
    /\ [](InProcess = IF cpc = "await_mvs" THEN 1 ELSE 0)
    /\ [][\A w \in Workers :
              \A i \in 1..Len(NewMsgs(0, w)) :
                  NewMsgs(0, w)[i].kind = "payload" =>
                      NewMsgs(0, w)[i].val[1] = ReportedThreshold]_vars
    /\ (cpc = "await_mvs" ~> cpc # "await_mvs")

\* Rank 0 waits for the threshold of a unit dispatched with a threshold it
\* received earlier, and that unit's batch is on its way to rank 1.
C39_Witness ==
    /\ cpc = "await_mvs"
    /\ minimum_viable_score # HARNESS_MVS
    /\ \E w \in Workers : KindIn(chan[w][1], "batch") = 1

====
